---- MODULE Spec2Model ----
(* State machine of the App component of src/src/App.jsx (the third, full    *)
(* version of the component, lines 193-1912): search, playback, favorites,    *)
(* recently played and volume, with the <audio> element as the audio engine.  *)
(* A track is represented by its identifier (a string); React commits the     *)
(* state changes of one handler together, so one handler is one action.       *)
EXTENDS Integers, Sequences, FiniteSets, TLC

(* ------------------------------------------------------------------------ *)
(* Bounds of the model and constants of the program                          *)
(* ------------------------------------------------------------------------ *)

\* pending 100 ms play timers that may coexist
MaxTimers == 1

\* engine notifications (play / pause / ended) that may be queued
MaxEvents == 2

\* searches started in one run of the search specification
MaxSearches == 2

\* recentlyPlayed keeps this many tracks: slice(0, 10)
MaxRecent == 10

\* a search keeps this many tracks: slice(0, 12)
MaxResults == 12

\* the side bar offers the first three recently played / trending tracks
SidebarCount == 3

\* useState(0.7), in percent
InitialVolume == 70

\* the volume of a newly created <audio> element, in percent
DefaultAudioVolume == 100

\* length of a preview, in the time units of the model
TrackDuration == 4

\* offsetWidth of the progress bar, in pixels
BarWidth == 100

\* the thumb reaches this many pixels past the end of the filled part
ThumbOverhang == 6

\* currentTrack before any selection: useState(null)
Null == "null"

\* tracks[i] for an index outside the array
Undefined == "undefined"

(* ------------------------------------------------------------------------ *)
(* The catalog service (external): what it answers                           *)
(* ------------------------------------------------------------------------ *)

QueryA == <<"a">>
QueryAB == <<"a", "b">>
QueryB == <<"b">>

\* the texts the search box may hold
Queries == {<<>>, <<" ", " ">>, <<" ", "a">>, QueryA, QueryB}

\* the body response.data.data of a search for q
CatalogSearch(q) ==
    CASE q = QueryA -> <<"t1", "t2", "t3">>
      [] q = QueryAB -> <<"t2", "t1">>
      [] q = QueryB -> <<"t1", "t2", "t3", "t4", "t5", "t6", "t7", "t8", "t9",
                         "t10", "t11", "t12", "t13">>
      [] OTHER -> <<"t3">>

\* the body of the chart request
CatalogChart == <<"t3", "t4">>

\* a chart with more tracks than the side bar keeps
CatalogChartLong == <<"t1", "t2", "t3", "t4", "t5", "t6", "t7", "t8", "t9",
                      "t10", "t11">>

\* the body a chart request answers with: the chart has grown by the time
\* of the fallback request
ChartBody(stage) == IF stage = "primary" THEN CatalogChart ELSE CatalogChartLong

\* the slider positions tried (percent)
VolumeLevels == {0, 30, 70, 100}

(* ------------------------------------------------------------------------ *)
(* Array helpers, computed as JavaScript computes them                        *)
(* ------------------------------------------------------------------------ *)

Range(s) == {s[i] : i \in 1..Len(s)}

Min(a, b) == IF a < b THEN a ELSE b

\* arr.slice(0, n)
Slice(s, n) == SubSeq(s, 1, Min(n, Len(s)))

\* arr.filter((t) => t.id !== id)
FilterOut(s, id) == SelectSeq(s, LAMBDA x : x # id)

\* arr.some((t) => t.id === id)
Some(s, id) == \E i \in 1..Len(s) : s[i] = id

\* arr.findIndex((t) => t.id === id): 0-based, -1 when absent
FindIndex(s, id) ==
    IF Some(s, id)
    THEN (CHOOSE i \in 1..Len(s) : s[i] = id /\ \A j \in 1..(i - 1) : s[j] # id) - 1
    ELSE -1

\* arr[i] with a 0-based index: undefined outside the array
At(s, i) == IF i >= 0 /\ i < Len(s) THEN s[i + 1] ELSE Undefined

\* query.trim(): leading and trailing blanks removed
RECURSIVE TrimLeft(_)
TrimLeft(q) == IF q # <<>> /\ Head(q) = " " THEN TrimLeft(Tail(q)) ELSE q

RECURSIVE TrimRight(_)
TrimRight(q) ==
    IF q # <<>> /\ q[Len(q)] = " " THEN TrimRight(SubSeq(q, 1, Len(q) - 1)) ELSE q

\* faulty variant: the text is tested as typed
TrimNothing(q) == q

Trim(q) == TrimRight(TrimLeft(q))

NoDuplicates(s) == \A i, j \in 1..Len(s) : s[i] = s[j] => i = j

Max(a, b) == IF a > b THEN a ELSE b

\* the elements of an array text, separated by commas
RECURSIVE Join(_)
Join(list) ==
    IF Len(list) <= 1 THEN list ELSE <<Head(list), ",">> \o Join(Tail(list))

\* JSON.stringify(list): the text, as a sequence of tokens
Stringify(list) == <<"[">> \o Join(list) \o <<"]">>

\* a token that stands for one track object
IsTrackToken(x) == x \notin {"[", "]", ",", "null"}

\* text is the JSON text of an array of tracks
IsArrayText(text) ==
    /\ Len(text) >= 2
    /\ text[1] = "["
    /\ text[Len(text)] = "]"
    /\ LET inner == SubSeq(text, 2, Len(text) - 1)
       IN  \/ inner = <<>>
           \/ /\ Len(inner) % 2 = 1
              /\ \A i \in 1..Len(inner) :
                    IF i % 2 = 1 THEN IsTrackToken(inner[i]) ELSE inner[i] = ","

\* JSON.parse(text): ok is FALSE when it throws SyntaxError; value is the
\* array parsed, when the text is one
Parse(text) ==
    IF IsArrayText(text)
    THEN LET inner == SubSeq(text, 2, Len(text) - 1)
         IN  [ok |-> TRUE, isArray |-> TRUE,
              value |-> [i \in 1..((Len(inner) + 1) \div 2) |-> inner[2 * i - 1]]]
    ELSE [ok |-> (text = <<"null">>), isArray |-> FALSE, value |-> <<>>]

\* faulty variant: the effect does not write the new list
PersistNothing(old, list) == old

\* the persistence effects: they run after every commit that changed the
\* list and replace the stored text
Persist(old, list) == Stringify(list)

(* ------------------------------------------------------------------------ *)
(* State                                                                      *)
(* ------------------------------------------------------------------------ *)

VARIABLES
    query,           \* text of the search box
    tracks,          \* search results
    loading,         \* spinner flag
    searches,        \* the searchMusic calls made: [q, stage, ok]
    trendingTracks,  \* chart tracks
    trendingStage,   \* where fetchTrending is: "primary", "fallback", "done"
    currentTrack,    \* selected track or Null
    isPlaying,       \* the is-playing flag
    recentlyPlayed,  \* most recent first
    favorites,       \* in insertion order
    volume,          \* stored level, percent
    isMuted,
    audioExists,     \* audioRef.current is the <audio> element
    audioVolume,     \* the element's volume, percent
    audioPaused,     \* the element's paused attribute
    events,          \* notifications of the element not yet handled
    timers,          \* pending setTimeout(play, 100) callbacks
    crashed,         \* a render threw: React has unmounted the component
    toggles,         \* history: parity of toggleFavorite calls per track
    lastSelected,    \* history: the track of the latest playTrack call
    lastOp,          \* history: the handler that ran last
    nextRun,         \* history: consecutive playNext calls: [start, count]
    muteSeq,         \* history: the mute / volume steps since the last mute
    mounted,         \* the component has been constructed
    storedFavorites, \* localStorage "musicFavorites", as JSON tokens
    storedRecent,    \* localStorage "recentlyPlayed", as JSON tokens
    alerts,          \* alert() calls made
    trendingRequests, \* requests fetchTrending has issued
    progress,        \* the progress state, percent
    position,        \* the element's currentTime, in time units
    durationKnown    \* the element's duration is a number (not NaN)

searchVars == <<query, tracks, loading, searches, alerts>>
trendingVars == <<trendingTracks, trendingStage, trendingRequests>>
storageVars == <<storedFavorites, storedRecent>>
seekVars == <<progress, position, durationKnown>>
playVars == <<currentTrack, isPlaying, recentlyPlayed>>
volumeVars == <<volume, isMuted>>
historyVars == <<lastSelected, nextRun>>

vars == <<query, tracks, loading, searches, trendingTracks, trendingStage,
          currentTrack, isPlaying, recentlyPlayed, favorites, volume, isMuted,
          audioExists, audioVolume, audioPaused, events, timers, crashed,
          toggles, lastSelected, lastOp, nextRun, muteSeq, mounted,
          storedFavorites, storedRecent, alerts, trendingRequests, progress,
          position, durationKnown>>

\* the component is on the page
Running == mounted /\ ~crashed

AllTracks == Range(CatalogSearch(QueryB)) \cup Range(CatalogChart)

NoRun == [start |-> Null, count |-> 0]

NoMuteSeq == [step |-> "none", level |-> 0]

\* the list shown in the centre column
displayTracks == IF Len(tracks) > 0 THEN tracks ELSE trendingTracks


(* ------------------------------------------------------------------------ *)
(* Initial states                                                             *)
(* ------------------------------------------------------------------------ *)

\* the trending fetch keeps this many tracks: slice(0, 10)
TrendingCount == 10

\* tracks after a completed search for q (none when q is empty)
ResultsOf(q) == IF Trim(q) = <<>> THEN <<>> ELSE Slice(CatalogSearch(q), MaxResults)

\* the state of a session: the useState initial values, with typed in the
\* search box, the result list of a completed search for q (if any), the
\* trending fetch at stage, and recent as the list read from localStorage
Session(typed, q, stage, chart, recent) ==
    /\ query = typed
    /\ tracks = ResultsOf(q)
    /\ loading = FALSE
    /\ searches = IF Trim(q) = <<>> THEN <<>>
                  ELSE <<[q |-> q, stage |-> "done", ok |-> TRUE,
                          before |-> <<>>, overwritten |-> FALSE,
                          requests |-> 1]>>
    /\ alerts = 0
    /\ trendingTracks = chart
    /\ trendingStage = stage
    /\ currentTrack = Null
    /\ isPlaying = FALSE
    /\ recentlyPlayed = recent
    /\ favorites = <<>>
    /\ volume = InitialVolume
    /\ isMuted = FALSE
    /\ audioExists = FALSE
    /\ audioVolume = DefaultAudioVolume
    /\ audioPaused = TRUE
    /\ events = <<>>
    /\ timers = 0
    /\ crashed = FALSE
    /\ toggles = [t \in AllTracks |-> 0]
    /\ lastSelected = Null
    /\ lastOp = "none"
    /\ nextRun = NoRun
    /\ muteSeq = NoMuteSeq
    /\ mounted = TRUE
    /\ storedFavorites = Stringify(<<>>)
    /\ storedRecent = Stringify(recent)
    /\ trendingRequests = (IF stage = "primary" THEN 1 ELSE 2)
    /\ progress = 0
    /\ position = 0
    /\ durationKnown = FALSE

Start(q, stage, chart, recent) == Session(q, q, stage, chart, recent)

\* application start, nothing stored, nothing fetched yet
Fresh == Start(<<>>, "primary", <<>>, <<>>)

\* application start followed by the typing of a text in the search box
Typed == \E q \in {QueryA, QueryB} : Session(q, <<>>, "primary", <<>>, <<>>)

\* a session in which the trending fetch and possibly one search for a text
\* of qs are done
LoadedFrom(qs) ==
    \E q \in qs :
        \E chart \in {<<>>, Slice(CatalogChart, TrendingCount)} :
            Start(q, "done", chart, <<>>)

Loaded == LoadedFrom({<<>>, QueryA, QueryAB})

\* a session with results for "ab" in which the first result was clicked and
\* is playing, its metadata loaded and its notifications handled
PlayingSession ==
    /\ query = QueryAB
    /\ tracks = ResultsOf(QueryAB)
    /\ loading = FALSE
    /\ searches = <<[q |-> QueryAB, stage |-> "done", ok |-> TRUE,
                     before |-> <<>>, overwritten |-> FALSE, requests |-> 1]>>
    /\ alerts = 0
    /\ trendingTracks = <<>>
    /\ trendingStage = "done"
    /\ trendingRequests = 2
    /\ currentTrack = ResultsOf(QueryAB)[1]
    /\ isPlaying = TRUE
    /\ recentlyPlayed = <<ResultsOf(QueryAB)[1]>>
    /\ favorites = <<>>
    /\ volume = InitialVolume
    /\ isMuted = FALSE
    /\ audioExists = TRUE
    /\ audioVolume = DefaultAudioVolume
    /\ audioPaused = FALSE
    /\ events = <<>>
    /\ timers = 0
    /\ crashed = FALSE
    /\ toggles = [t \in AllTracks |-> 0]
    /\ lastSelected = ResultsOf(QueryAB)[1]
    /\ lastOp = "onPlay"
    /\ nextRun = NoRun
    /\ muteSeq = NoMuteSeq
    /\ mounted = TRUE
    /\ storedFavorites = Stringify(<<>>)
    /\ storedRecent = Stringify(<<ResultsOf(QueryAB)[1]>>)
    /\ progress = 0
    /\ position = 0
    /\ durationKnown = TRUE

\* a list an earlier session stored: nine tracks, most recent first
StoredRecent == <<"t4", "t5", "t6", "t7", "t8", "t9", "t10", "t11", "t12">>

\* a session that starts with a stored recently-played list
Stored ==
    \E q \in {QueryA, QueryAB} : Start(q, "done", <<>>, StoredRecent)

\* the texts localStorage may hold under a key when the page is opened:
\* nothing, arrays an earlier session wrote, a truncated text, and null
StorageTexts ==
    {<<>>, Stringify(<<>>), Stringify(<<"t3">>), Stringify(<<"t4", "t3">>),
     <<"[", "t3">>, <<"null">>}

\* the page before the component is constructed, with f and r in localStorage
Unmounted(f, r) ==
    /\ query = <<>>
    /\ tracks = <<>>
    /\ loading = FALSE
    /\ searches = <<>>
    /\ alerts = 0
    /\ trendingTracks = <<>>
    /\ trendingStage = "none"
    /\ trendingRequests = 0
    /\ currentTrack = Null
    /\ isPlaying = FALSE
    /\ recentlyPlayed = <<>>
    /\ favorites = <<>>
    /\ volume = InitialVolume
    /\ isMuted = FALSE
    /\ audioExists = FALSE
    /\ audioVolume = DefaultAudioVolume
    /\ audioPaused = TRUE
    /\ events = <<>>
    /\ timers = 0
    /\ crashed = FALSE
    /\ toggles = [t \in AllTracks |-> 0]
    /\ lastSelected = Null
    /\ lastOp = "none"
    /\ nextRun = NoRun
    /\ muteSeq = NoMuteSeq
    /\ mounted = FALSE
    /\ storedFavorites = f
    /\ storedRecent = r
    /\ progress = 0
    /\ position = 0
    /\ durationKnown = FALSE

\* the page is opened with some texts in localStorage
Opened == \E f, r \in StorageTexts : Unmounted(f, r)

(* ------------------------------------------------------------------------ *)
(* Construction of the component                                              *)
(* ------------------------------------------------------------------------ *)

\* the lazy initializers: saved ? JSON.parse(saved) : []
Initializer(saved) ==
    IF saved = <<>> THEN [ok |-> TRUE, isArray |-> TRUE, value |-> <<>>]
    ELSE Parse(saved)

\* the first render and the mount effects. Every state variable takes its
\* useState value; when an initializer throws, or the value it returns has
\* no length / slice, the render throws and nothing is mounted.
Construct(op) ==
    LET f == Initializer(storedFavorites)
        r == Initializer(storedRecent)
        rendered == f.ok /\ f.isArray /\ r.ok /\ r.isArray
    IN  /\ mounted' = TRUE
        /\ crashed' = ~rendered
        /\ favorites' = (IF rendered THEN f.value ELSE <<>>)
        /\ recentlyPlayed' = (IF rendered THEN r.value ELSE <<>>)
        /\ toggles' = [t \in AllTracks |->
                          IF rendered /\ Some(f.value, t) THEN 1 ELSE 0]
        /\ storedFavorites' = (IF rendered
                               THEN Persist(storedFavorites, f.value)
                               ELSE storedFavorites)
        /\ storedRecent' = (IF rendered THEN Persist(storedRecent, r.value)
                            ELSE storedRecent)
        /\ trendingStage' = (IF rendered THEN "primary" ELSE "none")
        /\ trendingRequests' = (IF rendered THEN 1 ELSE 0)
        /\ query' = <<>>
        /\ tracks' = <<>>
        /\ loading' = FALSE
        /\ searches' = <<>>
        /\ alerts' = 0
        /\ trendingTracks' = <<>>
        /\ currentTrack' = Null
        /\ isPlaying' = FALSE
        /\ volume' = InitialVolume
        /\ isMuted' = FALSE
        /\ audioExists' = FALSE
        /\ audioVolume' = DefaultAudioVolume
        /\ audioPaused' = TRUE
        /\ events' = <<>>
        /\ timers' = 0
        /\ lastSelected' = Null
        /\ lastOp' = op
        /\ nextRun' = NoRun
        /\ muteSeq' = NoMuteSeq
        /\ progress' = 0
        /\ position' = 0
        /\ durationKnown' = FALSE

\* the page is opened
Mount == ~mounted /\ Construct("mount")

\* the page is reloaded: the component is constructed anew from localStorage
Reload == mounted /\ Construct("reload")

(* ------------------------------------------------------------------------ *)
(* The audio element                                                          *)
(* ------------------------------------------------------------------------ *)

\* audio.play(): a paused element starts and notifies "play"; one that had
\* reached the end starts again from the beginning
EnginePlay ==
    IF audioExists /\ audioPaused
    THEN /\ Len(events) < MaxEvents
         /\ audioPaused' = FALSE
         /\ events' = Append(events, "play")
         /\ position' = (IF durationKnown /\ position = TrackDuration
                         THEN 0 ELSE position)
    ELSE UNCHANGED <<audioPaused, events, position>>

\* audio.pause(): a playing element stops and notifies "pause"
EnginePause ==
    IF audioExists /\ ~audioPaused
    THEN /\ Len(events) < MaxEvents
         /\ audioPaused' = TRUE
         /\ events' = Append(events, "pause")
         /\ UNCHANGED position
    ELSE UNCHANGED <<audioPaused, events, position>>

\* faulty variant: the effect applies the level of the render before the change
VolumeEffectStale(newVolume, newMuted) ==
    IF (newVolume # volume \/ newMuted # isMuted) /\ audioExists
    THEN audioVolume' = (IF newMuted THEN 0 ELSE volume)
    ELSE UNCHANGED audioVolume

\* the volume effect: runs after a commit that changed volume or isMuted
VolumeEffect(newVolume, newMuted) ==
    IF (newVolume # volume \/ newMuted # isMuted) /\ audioExists
    THEN audioVolume' = (IF newMuted THEN 0 ELSE newVolume)
    ELSE UNCHANGED audioVolume

(* ------------------------------------------------------------------------ *)
(* Playback                                                                   *)
(* ------------------------------------------------------------------------ *)

\* faulty variant: the earlier occurrence is not removed
RecordPlayNoFilter(prev, t) == Slice(<<t>> \o prev, MaxRecent)

\* faulty variant: the list is not truncated
RecordPlayNoSlice(prev, t) == <<t>> \o FilterOut(prev, t)

\* faulty variant: the track is added at the end
RecordPlayAppend(prev, t) == Slice(FilterOut(prev, t) \o <<t>>, MaxRecent)

\* faulty variant: a track already in the list is left where it is
RecordPlayKeepOld(prev, t) ==
    IF Some(prev, t) THEN prev ELSE Slice(<<t>> \o prev, MaxRecent)

\* the updater given to setRecentlyPlayed
RecordPlay(prev, t) == Slice(<<t>> \o FilterOut(prev, t), MaxRecent)

\* a render that throws: React unmounts the tree, the element goes with it
Crash(op) ==
    /\ crashed' = TRUE
    /\ audioExists' = FALSE
    /\ audioPaused' = TRUE
    /\ events' = <<>>
    /\ timers' = 0
    /\ lastOp' = op
    /\ nextRun' = NoRun
    /\ UNCHANGED <<searchVars, trendingVars, playVars, favorites,
                   volumeVars, audioVolume, toggles, lastSelected,
                   muteSeq, mounted, storageVars, seekVars>>

\* the <audio> element after the commit of playTrack(t): created on the first
\* track (paused, default volume), reloaded (hence paused) when src changes
AudioAfterSelect(t) ==
    IF ~audioExists
    THEN /\ audioExists' = TRUE
         /\ audioVolume' = DefaultAudioVolume
         /\ audioPaused' = TRUE
         /\ position' = 0
         /\ durationKnown' = FALSE
    ELSE /\ audioPaused' = (IF t # currentTrack THEN TRUE ELSE audioPaused)
         /\ position' = (IF t # currentTrack THEN 0 ELSE position)
         /\ durationKnown' = (IF t # currentTrack THEN FALSE ELSE durationKnown)
         /\ UNCHANGED <<audioExists, audioVolume>>

\* the history of consecutive playNext calls
RunAfter(op) ==
    IF op = "playNext" /\ Some(tracks, currentTrack)
    THEN IF nextRun = NoRun \/ nextRun.count >= Len(tracks)
         THEN [start |-> currentTrack, count |-> 1]
         ELSE [nextRun EXCEPT !.count = @ + 1]
    ELSE NoRun

\* playTrack(track), called by the handler op; pending is the event queue
\* the handler leaves
playTrack(t, op, pending) ==
    IF t = Undefined
    THEN Crash(op)
    ELSE /\ timers < MaxTimers
         /\ currentTrack' = t
         /\ isPlaying' = TRUE
         /\ recentlyPlayed' = RecordPlay(recentlyPlayed, t)
         /\ storedRecent' = Persist(storedRecent, recentlyPlayed')
         /\ timers' = timers + 1
         /\ AudioAfterSelect(t)
         /\ events' = pending
         /\ lastSelected' = t
         /\ lastOp' = op
         /\ nextRun' = RunAfter(op)
         /\ UNCHANGED <<searchVars, trendingVars, favorites, volumeVars,
                   crashed, toggles, muteSeq, mounted, storedFavorites,
                   progress>>

\* the tracks the page offers for a click
Clickable ==
    (IF loading THEN {} ELSE Range(displayTracks))
        \cup Range(Slice(recentlyPlayed, SidebarCount))
        \cup Range(Slice(trendingTracks, SidebarCount))

ClickTrack ==
    /\ Running
    /\ \E t \in Clickable : playTrack(t, "playTrack", events)

\* faulty variant: the index stops at the last track instead of wrapping
NextIndexClamped == Min(FindIndex(tracks, currentTrack) + 1, Len(tracks) - 1)

\* the index playNext computes
NextIndex == (FindIndex(tracks, currentTrack) + 1) % Len(tracks)

\* the index playPrevious computes
PrevIndex ==
    LET currentIndex == FindIndex(tracks, currentTrack)
    IN  IF currentIndex = 0 THEN Len(tracks) - 1 ELSE currentIndex - 1

playNext(pending) ==
    /\ currentTrack # Null
    /\ Len(tracks) # 0
    /\ playTrack(At(tracks, NextIndex), "playNext", pending)

playPrevious ==
    /\ currentTrack # Null
    /\ Len(tracks) # 0
    /\ playTrack(At(tracks, PrevIndex), "playPrevious", events)

\* a handler that returns at its guard: nothing is set
Returned(op) ==
    /\ lastOp' = op
    /\ UNCHANGED <<searchVars, trendingVars, playVars, favorites,
                   volumeVars, audioExists, audioVolume, audioPaused,
                   events, timers, crashed, toggles, historyVars, muteSeq,
                   mounted, storageVars, seekVars>>

\* the next button of the now-playing panel (shown with a current track)
PlayNextClick ==
    /\ Running
    /\ currentTrack # Null
    /\ IF Len(tracks) = 0 THEN Returned("playNextReturned")
       ELSE playNext(events)

\* the previous button of the now-playing panel
PlayPreviousClick ==
    /\ Running
    /\ currentTrack # Null
    /\ IF Len(tracks) = 0 THEN Returned("playPreviousReturned")
       ELSE playPrevious

\* faulty variant: the flag is switched, the element is left alone
togglePlayPauseFlagOnly ==
    /\ Running
    /\ isPlaying' = (IF ~audioExists \/ currentTrack = Null
                     THEN isPlaying ELSE ~isPlaying)
    /\ lastOp' = "togglePlayPause"
    /\ UNCHANGED <<searchVars, trendingVars, currentTrack, recentlyPlayed,
                   favorites, volumeVars, audioExists, audioVolume,
                   audioPaused, events, timers, crashed, toggles,
                   historyVars, muteSeq, mounted, storageVars, seekVars>>

\* togglePlayPause: it returns at once without an element or a current track
togglePlayPause ==
    /\ Running
    /\ IF ~audioExists \/ currentTrack = Null
       THEN UNCHANGED <<isPlaying, audioPaused, events, position>>
       ELSE /\ IF isPlaying THEN EnginePause ELSE EnginePlay
            /\ isPlaying' = ~isPlaying
    /\ lastOp' = "togglePlayPause"
    /\ UNCHANGED <<searchVars, trendingVars, currentTrack, recentlyPlayed,
                   favorites, volumeVars, audioExists, audioVolume,
                   timers, crashed, toggles, historyVars, muteSeq,
                   mounted, storageVars, progress, durationKnown>>

\* the callback of setTimeout(..., 100) in playTrack
TimerFire ==
    /\ Running
    /\ timers > 0
    /\ timers' = timers - 1
    /\ EnginePlay
    /\ lastOp' = "timer"
    /\ UNCHANGED <<searchVars, trendingVars, playVars, favorites,
                   volumeVars, audioExists, audioVolume, crashed, toggles,
                   historyVars, muteSeq, mounted, storageVars, progress,
                   durationKnown>>

\* the preview reaches its end: the element pauses, notifies "pause", "ended"
PlaybackEnds ==
    /\ Running
    /\ audioExists
    /\ ~audioPaused
    /\ Len(events) + 2 <= MaxEvents
    /\ audioPaused' = TRUE
    /\ events' = events \o <<"pause", "ended">>
    /\ position' = TrackDuration
    /\ durationKnown' = TRUE
    /\ lastOp' = "engine"
    /\ UNCHANGED <<searchVars, trendingVars, playVars, favorites,
                   volumeVars, audioExists, audioVolume, timers, crashed,
                   toggles, historyVars, muteSeq, mounted, storageVars,
                   progress>>

\* onPlay={() => setIsPlaying(true)}
OnPlay ==
    /\ Running
    /\ events # <<>>
    /\ Head(events) = "play"
    /\ events' = Tail(events)
    /\ isPlaying' = TRUE
    /\ lastOp' = "onPlay"
    /\ UNCHANGED <<searchVars, trendingVars, currentTrack, recentlyPlayed,
                   favorites, volumeVars, audioExists, audioVolume,
                   audioPaused, timers, crashed, toggles, historyVars,
                   muteSeq, mounted, storageVars, seekVars>>

\* onPause={() => setIsPlaying(false)}
OnPause ==
    /\ Running
    /\ events # <<>>
    /\ Head(events) = "pause"
    /\ events' = Tail(events)
    /\ isPlaying' = FALSE
    /\ lastOp' = "onPause"
    /\ UNCHANGED <<searchVars, trendingVars, currentTrack, recentlyPlayed,
                   favorites, volumeVars, audioExists, audioVolume,
                   audioPaused, timers, crashed, toggles, historyVars,
                   muteSeq, mounted, storageVars, seekVars>>

\* faulty variant: the end of a track only stops playback
OnEndedStops ==
    /\ Running
    /\ events # <<>>
    /\ Head(events) = "ended"
    /\ events' = Tail(events)
    /\ isPlaying' = FALSE
    /\ lastOp' = "onEnded"
    /\ UNCHANGED <<searchVars, trendingVars, currentTrack, recentlyPlayed,
                   favorites, volumeVars, audioExists, audioVolume,
                   audioPaused, timers, crashed, toggles, historyVars,
                   muteSeq, mounted, storageVars, seekVars>>

\* onEnded={playNext}
OnEnded ==
    /\ Running
    /\ events # <<>>
    /\ Head(events) = "ended"
    /\ IF currentTrack # Null /\ Len(tracks) # 0
       THEN playNext(Tail(events))
       ELSE /\ events' = Tail(events)
            /\ lastOp' = "onEnded"
            /\ UNCHANGED <<searchVars, trendingVars, playVars, favorites,
                   volumeVars, audioExists, audioVolume, audioPaused,
                   timers, crashed, toggles, historyVars, muteSeq,
                   mounted, storageVars, seekVars>>


\* the timer callback when the element refuses to start (autoplay policy,
\* preview that cannot be loaded): play() returns a rejected promise, the
\* element stays paused and notifies nothing; no handler is attached
TimerFireRejected ==
    /\ Running
    /\ timers > 0
    /\ audioExists
    /\ audioPaused
    /\ timers' = timers - 1
    /\ lastOp' = "playRejected"
    /\ UNCHANGED <<searchVars, trendingVars, playVars, favorites,
                   volumeVars, audioExists, audioVolume, audioPaused,
                   events, crashed, toggles, historyVars, muteSeq, mounted,
                   storageVars, seekVars>>

\* togglePlayPause on a paused track when the element refuses to start
togglePlayPauseRejected ==
    /\ Running
    /\ audioExists
    /\ currentTrack # Null
    /\ ~isPlaying
    /\ audioPaused
    /\ isPlaying' = TRUE
    /\ lastOp' = "playRejected"
    /\ UNCHANGED <<searchVars, trendingVars, currentTrack, recentlyPlayed,
                   favorites, volumeVars, audioExists, audioVolume,
                   audioPaused, events, timers, crashed, toggles,
                   historyVars, muteSeq, mounted, storageVars, seekVars>>

(* ------------------------------------------------------------------------ *)
(* Progress and seeking                                                       *)
(* ------------------------------------------------------------------------ *)

\* the element has read the length of the preview
MetadataLoaded ==
    /\ Running
    /\ audioExists
    /\ ~durationKnown
    /\ durationKnown' = TRUE
    /\ lastOp' = "metadata"
    /\ UNCHANGED <<searchVars, trendingVars, playVars, favorites,
                   volumeVars, audioExists, audioVolume, audioPaused,
                   events, timers, crashed, toggles, historyVars, muteSeq,
                   mounted, storageVars, progress, position>>

\* playback moves on by one unit of time, short of the end
PlaybackAdvances ==
    /\ Running
    /\ audioExists
    /\ ~audioPaused
    /\ durationKnown
    /\ position + 1 < TrackDuration
    /\ position' = position + 1
    /\ lastOp' = "advance"
    /\ UNCHANGED <<searchVars, trendingVars, playVars, favorites,
                   volumeVars, audioExists, audioVolume, audioPaused,
                   events, timers, crashed, toggles, historyVars, muteSeq,
                   mounted, storageVars, progress, durationKnown>>

\* (currentTime / duration) * 100 || 0: NaN when the duration is, hence 0
TimePercent ==
    IF durationKnown THEN (position * 100) \div TrackDuration ELSE 0

\* onTimeUpdate
handleTimeUpdate ==
    /\ Running
    /\ audioExists
    /\ progress' = TimePercent
    /\ lastOp' = "timeUpdate"
    /\ UNCHANGED <<searchVars, trendingVars, playVars, favorites,
                   volumeVars, audioExists, audioVolume, audioPaused,
                   events, timers, crashed, toggles, historyVars, muteSeq,
                   mounted, storageVars, position, durationKnown>>

\* the right edge of the filled part of the bar, in pixels from its left
Fill == (progress * BarWidth) \div 100

\* where a click may land, in pixels from the left edge of the bar: on the
\* bar, or on the part of the thumb outside the bar (the thumb is centred on
\* the right edge of the filled part and is not clipped by the bar)
ClickPositions ==
    {0, BarWidth \div 2, BarWidth}
        \cup (IF progress >= 0 /\ progress <= 100
              THEN {x \in {Fill - ThumbOverhang, Fill + ThumbOverhang} :
                        x < 0 \/ x > BarWidth}
              ELSE {})

\* onClick of the progress bar. The assignment of NaN to currentTime throws
\* a TypeError; the element keeps a finite currentTime within the track.
handleProgressClick ==
    /\ Running
    /\ audioExists
    /\ \E clickPosition \in ClickPositions :
        LET percentage == (clickPosition * 100) \div BarWidth
            newTime == (percentage * TrackDuration) \div 100
        IN  IF durationKnown
            THEN /\ position' = Max(0, Min(TrackDuration, newTime))
                 /\ progress' = percentage
                 /\ lastOp' = "seek"
            ELSE /\ lastOp' = "seekThrew"
                 /\ UNCHANGED <<progress, position>>
    /\ UNCHANGED <<searchVars, trendingVars, playVars, favorites,
                   volumeVars, audioExists, audioVolume, audioPaused,
                   events, timers, crashed, toggles, historyVars, muteSeq,
                   mounted, storageVars, durationKnown>>

(* ------------------------------------------------------------------------ *)
(* Favorites                                                                  *)
(* ------------------------------------------------------------------------ *)

\* faulty variant: the track is added whether it is a favorite or not
ToggleInAlwaysAdds(prev, t) == Append(prev, t)

\* faulty variant: a favorited track is not removed
ToggleInAddOnly(prev, t) == IF Some(prev, t) THEN prev ELSE Append(prev, t)

\* the updater given to setFavorites
ToggleIn(prev, t) == IF Some(prev, t) THEN FilterOut(prev, t) ELSE Append(prev, t)

isFavorite(trackId) == Some(favorites, trackId)

\* faulty variant: a toggled track is also put on the recently-played list
toggleFavoriteRecords ==
    /\ Running
    /\ ~loading
    /\ \E t \in Range(displayTracks) :
        /\ favorites' = ToggleIn(favorites, t)
        /\ toggles' = [toggles EXCEPT ![t] = 1 - @]
        /\ recentlyPlayed' = RecordPlay(recentlyPlayed, t)
    /\ storedFavorites' = Persist(storedFavorites, favorites')
    /\ storedRecent' = Persist(storedRecent, recentlyPlayed')
    /\ lastOp' = "toggleFavorite"
    /\ UNCHANGED <<searchVars, trendingVars, currentTrack, isPlaying,
                   volumeVars, audioExists, audioVolume, audioPaused,
                   events, timers, crashed, historyVars, muteSeq, mounted,
                   seekVars>>

\* the heart button of a row of the centre column
toggleFavorite ==
    /\ Running
    /\ ~loading
    /\ \E t \in Range(displayTracks) :
        /\ favorites' = ToggleIn(favorites, t)
        /\ toggles' = [toggles EXCEPT ![t] = 1 - @]
    /\ storedFavorites' = Persist(storedFavorites, favorites')
    /\ lastOp' = "toggleFavorite"
    /\ UNCHANGED <<searchVars, trendingVars, playVars, volumeVars,
                   audioExists, audioVolume, audioPaused, events, timers,
                   crashed, historyVars, muteSeq, mounted, storedRecent,
                   seekVars>>

(* ------------------------------------------------------------------------ *)
(* Volume                                                                     *)
(* ------------------------------------------------------------------------ *)

\* the mute button: setIsMuted(!isMuted)
MuteClick ==
    /\ Running
    /\ currentTrack # Null
    /\ isMuted' = ~isMuted
    /\ volume' = volume
    /\ VolumeEffect(volume, ~isMuted)
    /\ muteSeq' = IF ~isMuted THEN [step |-> "muted", level |-> volume]
                  ELSE IF muteSeq.step = "muted"
                       THEN [muteSeq EXCEPT !.step = "unmuted"]
                       ELSE NoMuteSeq
    /\ lastOp' = "mute"
    /\ UNCHANGED <<searchVars, trendingVars, playVars, favorites,
                   audioExists, audioPaused, events, timers, crashed,
                   toggles, historyVars, mounted, storageVars, seekVars>>

\* the slider: setVolume(parseFloat(value)); setIsMuted(false). The slider
\* shows (isMuted ? 0 : volume) and reports a change to another position.
VolumeChange ==
    /\ Running
    /\ currentTrack # Null
    /\ \E x \in VolumeLevels :
        /\ x # (IF isMuted THEN 0 ELSE volume)
        /\ volume' = x
        /\ isMuted' = FALSE
        /\ VolumeEffect(x, FALSE)
        /\ muteSeq' = IF muteSeq.step = "muted"
                      THEN [step |-> "set", level |-> x]
                      ELSE NoMuteSeq
    /\ lastOp' = "volume"
    /\ UNCHANGED <<searchVars, trendingVars, playVars, favorites,
                   audioExists, audioPaused, events, timers, crashed,
                   toggles, historyVars, mounted, storageVars, seekVars>>

(* ------------------------------------------------------------------------ *)
(* Search and trending                                                        *)
(* ------------------------------------------------------------------------ *)

\* onChange of the search box
SetQuery ==
    /\ Running
    /\ \E q \in Queries : q # query /\ query' = q
    /\ lastOp' = "setQuery"
    /\ UNCHANGED <<tracks, loading, searches, alerts, trendingVars,
                   playVars, favorites, volumeVars, audioExists, audioVolume,
                   audioPaused, events, timers, crashed, toggles,
                   historyVars, muteSeq, mounted, storageVars, seekVars>>

\* searchMusic up to its first await: it returns at once on a blank text,
\* otherwise it sets the spinner and issues the first request. A search
\* record also keeps, as history, the list shown when the search started and
\* whether a response of another search has replaced the list since.
searchMusic ==
    /\ Running
    /\ IF Trim(query) = <<>>
       THEN UNCHANGED <<loading, searches>>
       ELSE /\ Len(searches) < MaxSearches
            /\ loading' = TRUE
            /\ searches' = Append(searches,
                    [q |-> query, stage |-> "primary", ok |-> FALSE,
                     before |-> tracks, overwritten |-> FALSE,
                     requests |-> 1])
    /\ lastOp' = "searchMusic"
    /\ UNCHANGED <<query, tracks, alerts, trendingVars, playVars, favorites,
                   volumeVars, audioExists, audioVolume, audioPaused,
                   events, timers, crashed, toggles, historyVars, muteSeq,
                   mounted, storageVars, seekVars>>

\* the search records after search i has answered
Answered(i) ==
    [j \in 1..Len(searches) |->
        IF j = i THEN [searches[j] EXCEPT !.stage = "done", !.ok = TRUE]
        ELSE IF searches[j].stage # "done"
             THEN [searches[j] EXCEPT !.overwritten = TRUE]
             ELSE searches[j]]

\* faulty variant: the response is added to the list shown
SearchSucceedsMerging(i, stage) ==
    /\ searches[i].stage = stage
    /\ tracks' = Slice(tracks \o CatalogSearch(searches[i].q), MaxResults)
    /\ loading' = FALSE
    /\ searches' = Answered(i)
    /\ nextRun' = NoRun
    /\ lastOp' = "searchDone"
    /\ UNCHANGED <<query, alerts, trendingVars, playVars, favorites,
                   volumeVars, audioExists, audioVolume, audioPaused,
                   events, timers, crashed, toggles, lastSelected, muteSeq,
                   mounted, storageVars, seekVars>>

\* a request of search i answers: setTracks(...slice(0, 12)), then finally
SearchSucceeds(i, stage) ==
    /\ searches[i].stage = stage
    /\ tracks' = Slice(CatalogSearch(searches[i].q), MaxResults)
    /\ loading' = FALSE
    /\ searches' = Answered(i)
    /\ nextRun' = NoRun
    /\ lastOp' = "searchDone"
    /\ UNCHANGED <<query, alerts, trendingVars, playVars, favorites, volumeVars,
                   audioExists, audioVolume, audioPaused, events, timers,
                   crashed, toggles, lastSelected, muteSeq, mounted,
                   storageVars, seekVars>>

SearchPrimaryOk ==
    Running /\ \E i \in 1..Len(searches) : SearchSucceeds(i, "primary")

SearchFallbackOk ==
    Running /\ \E i \in 1..Len(searches) : SearchSucceeds(i, "fallback")

\* the first request fails: the catch block issues the fallback request
SearchPrimaryFail ==
    /\ Running
    /\ \E i \in 1..Len(searches) :
        /\ searches[i].stage = "primary"
        /\ searches' = [searches EXCEPT ![i].stage = "fallback",
                                        ![i].requests = @ + 1]
    /\ lastOp' = "searchRetry"
    /\ UNCHANGED <<query, tracks, loading, alerts, trendingVars, playVars,
                   favorites, volumeVars, audioExists, audioVolume,
                   audioPaused, events, timers, crashed, toggles,
                   historyVars, muteSeq, mounted, storageVars, seekVars>>

\* faulty variant: the failure empties the list
SearchFallbackFailClears ==
    /\ Running
    /\ \E i \in 1..Len(searches) :
        /\ searches[i].stage = "fallback"
        /\ searches' = [searches EXCEPT ![i].stage = "done"]
    /\ tracks' = <<>>
    /\ alerts' = alerts + 1
    /\ loading' = FALSE
    /\ lastOp' = "searchFailed"
    /\ UNCHANGED <<query, trendingVars, playVars, favorites,
                   volumeVars, audioExists, audioVolume, audioPaused,
                   events, timers, crashed, toggles, historyVars, muteSeq,
                   mounted, storageVars, seekVars>>

\* faulty variant: the spinner is left on after the failure
SearchFallbackFailKeepsLoading ==
    /\ Running
    /\ \E i \in 1..Len(searches) :
        /\ searches[i].stage = "fallback"
        /\ searches' = [searches EXCEPT ![i].stage = "done"]
    /\ alerts' = alerts + 1
    /\ lastOp' = "searchFailed"
    /\ UNCHANGED <<query, tracks, loading, trendingVars, playVars,
                   favorites, volumeVars, audioExists, audioVolume,
                   audioPaused, events, timers, crashed, toggles,
                   historyVars, muteSeq, mounted, storageVars, seekVars>>

\* the fallback fails too: alert, then finally
SearchFallbackFail ==
    /\ Running
    /\ \E i \in 1..Len(searches) :
        /\ searches[i].stage = "fallback"
        /\ searches' = [searches EXCEPT ![i].stage = "done"]
    /\ alerts' = alerts + 1
    /\ loading' = FALSE
    /\ lastOp' = "searchFailed"
    /\ UNCHANGED <<query, tracks, trendingVars, playVars, favorites,
                   volumeVars, audioExists, audioVolume, audioPaused,
                   events, timers, crashed, toggles, historyVars, muteSeq,
                   mounted, storageVars, seekVars>>

\* faulty variant: the whole chart is kept
ChartKeptWhole(body) == body

\* the part of a chart body that setTrendingTracks receives
ChartKept(body) == Slice(body, TrendingCount)

\* a request of fetchTrending answers
TrendingSucceeds(stage) ==
    /\ Running
    /\ trendingStage = stage
    /\ trendingTracks' = ChartKept(ChartBody(stage))
    /\ trendingStage' = "done"
    /\ lastOp' = "trendingDone"
    /\ UNCHANGED <<searchVars, trendingRequests, playVars, favorites, volumeVars,
                   audioExists, audioVolume, audioPaused, events, timers,
                   crashed, toggles, historyVars, muteSeq, mounted,
                   storageVars, seekVars>>

TrendingPrimaryOk == TrendingSucceeds("primary")

TrendingFallbackOk == TrendingSucceeds("fallback")

\* a request of fetchTrending fails: one fallback, then nothing more
TrendingFails(stage, then) ==
    /\ Running
    /\ trendingStage = stage
    /\ trendingStage' = then
    /\ trendingRequests' = (IF then = "fallback" THEN trendingRequests + 1
                            ELSE trendingRequests)
    /\ lastOp' = "trendingFailed"
    /\ UNCHANGED <<searchVars, trendingTracks, playVars, favorites,
                   volumeVars, audioExists, audioVolume, audioPaused,
                   events, timers, crashed, toggles, historyVars, muteSeq,
                   mounted, storageVars, seekVars>>

TrendingPrimaryFail == TrendingFails("primary", "fallback")

TrendingFallbackFail == TrendingFails("fallback", "done")

(* ------------------------------------------------------------------------ *)
(* Specifications                                                             *)
(* ------------------------------------------------------------------------ *)

\* the handlers of the player and the notifications of the element
PlayerNext ==
    \/ ClickTrack
    \/ PlayNextClick
    \/ PlayPreviousClick
    \/ togglePlayPause
    \/ TimerFire
    \/ PlaybackEnds
    \/ OnPlay
    \/ OnPause
    \/ OnEnded

\* playback in a session whose lists are loaded: no result list, or one of
\* three, two or one tracks
Init == LoadedFrom({<<>>, QueryA, QueryAB, <<" ", "a">>})

Next == PlayerNext

Spec == Init /\ [][Next]_vars

\* playback in a session that starts with a stored recently-played list
SpecRecent == Stored /\ [][PlayerNext]_vars

\* favorites, interleaved with playback
NextFav == toggleFavorite \/ PlayerNext

SpecFav == Loaded /\ [][NextFav]_vars

\* volume and mute, with the clicks that create the element
NextVolume ==
    \/ MuteClick
    \/ VolumeChange
    \/ ClickTrack
    \/ togglePlayPause
    \/ TimerFire
    \/ OnPlay
    \/ OnPause

SpecVolume == Loaded /\ [][NextVolume]_vars

\* searches and the trending fetch from application start
NextSearch ==
    \/ SetQuery
    \/ searchMusic
    \/ SearchPrimaryOk
    \/ SearchPrimaryFail
    \/ SearchFallbackOk
    \/ SearchFallbackFail
    \/ TrendingPrimaryOk
    \/ TrendingPrimaryFail
    \/ TrendingFallbackOk
    \/ TrendingFallbackFail

SpecSearch == Fresh /\ [][NextSearch]_vars

\* a pending request of a search is answered or fails
SearchSettles ==
    \/ SearchPrimaryOk
    \/ SearchPrimaryFail
    \/ SearchFallbackOk
    \/ SearchFallbackFail

\* searches for the text typed, and the trending fetch
NextSearchFair ==
    \/ searchMusic
    \/ SearchSettles
    \/ TrendingPrimaryOk
    \/ TrendingPrimaryFail
    \/ TrendingFallbackOk
    \/ TrendingFallbackFail

\* searches on a network that answers or fails every request in the end
SpecSearchFair ==
    Typed /\ [][NextSearchFair]_vars /\ WF_vars(SearchSettles)

\* playback when the element may refuse to start
NextReject ==
    \/ PlayerNext
    \/ TimerFireRejected
    \/ togglePlayPauseRejected

SpecReject == Loaded /\ [][NextReject]_vars

\* the progress bar of a session with a result list of two tracks
NextSeek ==
    \/ ClickTrack
    \/ TimerFire
    \/ OnPlay
    \/ OnPause
    \/ togglePlayPause
    \/ MetadataLoaded
    \/ PlaybackAdvances
    \/ handleTimeUpdate
    \/ handleProgressClick

SpecSeek == LoadedFrom({QueryAB}) /\ [][NextSeek]_vars

\* the handlers of the user on a session with a playing track, in the time
\* before what they started comes back: play timers, notifications of the
\* element and responses to search requests are still pending
NextFrame ==
    \/ ClickTrack
    \/ PlayNextClick
    \/ PlayPreviousClick
    \/ togglePlayPause
    \/ toggleFavorite
    \/ MuteClick
    \/ VolumeChange
    \/ handleProgressClick
    \/ searchMusic

SpecFrame == PlayingSession /\ [][NextFrame]_vars

\* opening and reloading the page, with the handlers that change what is
\* stored
NextBoot ==
    \/ Mount
    \/ Reload
    \/ TrendingPrimaryOk
    \/ toggleFavorite
    \/ ClickTrack
    \/ TimerFire
    \/ OnPlay

SpecBoot == Opened /\ [][NextBoot]_vars


(* ------------------------------------------------------------------------ *)
(* Properties                                                                 *)
(* ------------------------------------------------------------------------ *)

\* the handlers that call playTrack
Selecting == {"playTrack", "playNext", "playPrevious"}

\* C1: starting from empty favorites, a track is in favorites if and only if
\* toggleFavorite was called on it an odd number of times, whatever else ran.
C1_FavoriteIffOddToggles ==
    \A t \in AllTracks : isFavorite(t) <=> toggles[t] = 1

\* a second toggle has just removed the only favorite
C1_Witness ==
    /\ lastOp = "toggleFavorite"
    /\ favorites = <<>>
    /\ currentTrack # Null

\* C2: the recently-played list never holds the same track identifier twice.
C2_NoDuplicateRecent == NoDuplicates(recentlyPlayed)

\* a stored entry was played again: it moved to the front, nothing was added
C2_Witness ==
    /\ lastSelected = "t5"
    /\ Head(recentlyPlayed) = "t5"
    /\ Len(recentlyPlayed) = Len(StoredRecent)

\* C3: the recently-played list has at most 10 entries, and playing a track
\* that is not in a full list drops the last (least recently played) entry.
C3_AtMostTenDropLast ==
    /\ [](Len(recentlyPlayed) <= MaxRecent)
    /\ [][(/\ Len(recentlyPlayed) = MaxRecent
           /\ lastOp' \in Selecting
           /\ ~crashed'
           /\ ~Some(recentlyPlayed, lastSelected'))
          => recentlyPlayed' =
                <<lastSelected'>> \o SubSeq(recentlyPlayed, 1, MaxRecent - 1)]_vars

\* an eleventh distinct track was played: the oldest stored entry is gone
C3_Witness ==
    /\ Len(recentlyPlayed) = MaxRecent
    /\ ~Some(recentlyPlayed, StoredRecent[Len(StoredRecent)])
    /\ lastOp \in Selecting

\* C4: once a track has been selected in this session, index 0 of a non-empty
\* recently-played list is the most recently selected track.
C4_HeadIsLastSelected ==
    (recentlyPlayed # <<>> /\ lastSelected # Null)
        => recentlyPlayed[1] = lastSelected

\* a selection made by playPrevious on top of the stored list
C4_Witness ==
    /\ lastOp = "playPrevious"
    /\ ~crashed
    /\ lastSelected # Null
    /\ Len(recentlyPlayed) > Len(StoredRecent)

\* C5: after playTrack(t), from any playback state, the current track is t,
\* the is-playing flag is set and t is at index 0 of the recently-played list.
C5_PlayTrackSelects ==
    (lastOp \in Selecting /\ ~crashed)
        => /\ currentTrack = lastSelected
           /\ currentTrack \in AllTracks
           /\ isPlaying
           /\ recentlyPlayed # <<>>
           /\ recentlyPlayed[1] = lastSelected

\* a click on a track while another one is loaded and playing
C5_Witness ==
    /\ lastOp = "playTrack"
    /\ Len(recentlyPlayed) >= 2
    /\ ~audioPaused
    /\ currentTrack = "t3"

\* C6: with the current track in the result list of length n, each playNext
\* moves to index (i + 1) mod n, so n calls in a row return to the start.
C6_NextIsCircular ==
    nextRun # NoRun
        => /\ FindIndex(tracks, currentTrack) =
                (FindIndex(tracks, nextRun.start) + nextRun.count) % Len(tracks)
           /\ (nextRun.count = Len(tracks) => currentTrack = nextRun.start)

\* three playNext calls in a row on a list of three
C6_Witness ==
    /\ Len(tracks) = 3
    /\ nextRun.count = 3
    /\ currentTrack = nextRun.start

\* C7: with the current track absent from the result list, playNext and
\* playPrevious do not throw and select a track of the result list; no
\* undefined entry reaches the recently-played list.
C7_NextPrevNeverThrow ==
    [][(/\ lastOp' \in {"playNext", "playPrevious"}
        /\ currentTrack # Null
        /\ tracks # <<>>
        /\ ~Some(tracks, currentTrack))
       => /\ ~crashed'
          /\ Some(tracks', currentTrack')
          /\ ~Some(recentlyPlayed', Undefined)]_vars

\* C8: whenever the audio element exists its volume is (isMuted ? 0 : volume),
\* also right after the first playTrack has created it.
C8_OutputFollowsVolume ==
    audioExists => audioVolume = (IF isMuted THEN 0 ELSE volume)

\* C9: mute, then set the level to x, then un-mute leaves the output at x;
\* mute then un-mute with no change in between restores the stored level.
C9_MuteKeepsLevel ==
    /\ muteSeq.step = "set"
        => /\ ~isMuted
           /\ volume = muteSeq.level
           /\ audioVolume = muteSeq.level
    /\ muteSeq.step = "unmuted"
        => /\ ~isMuted
           /\ volume = muteSeq.level
           /\ audioVolume = muteSeq.level

\* muted at 70, then the slider moved to 30
C9_Witness ==
    /\ muteSeq.step = "set"
    /\ muteSeq.level = 30
    /\ audioExists

\* C10: after two overlapping searches have both answered, the result list is
\* the one of the second search, in every order of arrival.
C10_LatestSearchWins ==
    (/\ Len(searches) = 2
     /\ \A i \in 1..2 : searches[i].stage = "done" /\ searches[i].ok)
        => tracks = ResultsOf(searches[2].q)

\* a stored text that is not the JSON text of an array
InvalidText(text) ==
    /\ text # <<>>
    /\ \/ text[1] # "["
       \/ text[Len(text)] # "]"
       \/ Len(text) < 2

\* C11: when localStorage holds, under the favorites or the recently-played
\* key, malformed JSON or JSON that is not an array, the start of the
\* application leaves that collection empty and raises no error.
C11_InvalidStorageStartsEmpty ==
    (mounted /\ (InvalidText(storedFavorites) \/ InvalidText(storedRecent)))
        => /\ ~crashed
           /\ InvalidText(storedFavorites) => favorites = <<>>
           /\ InvalidText(storedRecent) => recentlyPlayed = <<>>

\* C12: after every toggleFavorite and playTrack the two stored texts are the
\* serialized favorites and recently-played list, and a reload restores both
\* lists with the same members in the same order.
C12_WriteThrough ==
    /\ [](Running => /\ storedFavorites = Stringify(favorites)
                     /\ storedRecent = Stringify(recentlyPlayed))
    /\ [][(lastOp' = "reload" /\ ~crashed)
          => /\ ~crashed'
             /\ favorites' = favorites
             /\ recentlyPlayed' = recentlyPlayed]_vars

\* a reload after both lists were built in the session, in an order that no
\* text found at the first start holds
C12_Witness ==
    /\ lastOp = "reload"
    /\ ~crashed
    /\ favorites = <<"t3", "t4">>
    /\ recentlyPlayed = <<"t3", "t4">>

\* list is the first n entries of body, in order (all of body when shorter)
FirstOf(list, body, n) ==
    /\ Len(list) = (IF Len(body) < n THEN Len(body) ELSE n)
    /\ \A k \in 1..Len(list) : list[k] = body[k]

\* C13: a successful search replaces the result list by the first 12 tracks
\* of its response, in order; the list never has more than 12 entries and
\* is always taken from one response only.
C13_ResultsAreOneResponse ==
    /\ [](/\ Len(tracks) <= MaxResults
          /\ tracks # <<>>
                => \E i \in 1..Len(searches) :
                      /\ searches[i].ok
                      /\ FirstOf(tracks, CatalogSearch(searches[i].q), MaxResults))
    /\ [][lastOp' = "searchDone"
          => \E i \in 1..Len(searches) :
                /\ searches[i].stage # "done"
                /\ searches'[i].stage = "done"
                /\ searches'[i].ok
                /\ FirstOf(tracks', CatalogSearch(searches[i].q), MaxResults)]_vars

\* a response of thirteen tracks has replaced the three of an earlier search
C13_Witness ==
    /\ lastOp = "searchDone"
    /\ Len(searches) = 2
    /\ searches[1].q = QueryA /\ searches[1].ok /\ ~searches[1].overwritten
    /\ searches[2].q = QueryB /\ searches[2].ok
    /\ Len(tracks) = MaxResults

\* the step in which search i fails for good (its fallback request failed)
FailureOf(i) ==
    /\ searches[i].stage = "fallback"
    /\ searches'[i].stage = "done"
    /\ ~searches'[i].ok

\* C14, as stated: when both requests of a search fail, an error is shown and
\* the result list is what it was before that search started; current track,
\* favorites and recently-played list are unchanged.
C14_FailedSearchRestoresList ==
    [][\A i \in 1..Len(searches) :
          FailureOf(i)
            => /\ alerts' = alerts + 1
               /\ tracks' = searches[i].before
               /\ UNCHANGED <<playVars, favorites>>]_vars

\* C14, amended: when both requests of a search fail, an error is shown and
\* the failing search leaves the result list as it is: as it was before the
\* search started, unless the response of an overlapping search has replaced
\* it since; current track, favorites and recently-played list are unchanged.
C14_FailedSearchLeavesList ==
    [][\A i \in 1..Len(searches) :
          FailureOf(i)
            => /\ alerts' = alerts + 1
               /\ tracks' = tracks
               /\ ~searches[i].overwritten => tracks' = searches[i].before
               /\ UNCHANGED <<playVars, favorites>>]_vars

\* a second search has failed and the results of the first are still shown
C14_Witness ==
    /\ lastOp = "searchFailed"
    /\ alerts = 1
    /\ Len(searches) = 2
    /\ searches[1].ok
    /\ searches[2].stage = "done" /\ ~searches[2].ok
    /\ ~searches[2].overwritten
    /\ tracks # <<>>
    /\ tracks = searches[2].before

\* the text has no character other than blanks
Blank(q) == \A i \in 1..Len(q) : q[i] = " "

\* C15: searchMusic with an empty or all-blank text starts no request and
\* changes nothing: result list, spinner, alerts and all the rest stay.
C15_BlankSearchIsNoOp ==
    [][(lastOp' = "searchMusic" /\ Blank(query))
       => UNCHANGED <<searchVars, trendingVars, playVars, favorites,
                      volumeVars, storageVars, seekVars, audioExists,
                      audioVolume, audioPaused, events, timers, crashed>>]_vars

\* searchMusic has just returned on two blanks, earlier results still shown
C15_Witness ==
    /\ lastOp = "searchMusic"
    /\ query = <<" ", " ">>
    /\ tracks # <<>>
    /\ ~loading

\* C16: the trending fetch is made once, at start: one request and at most
\* one fallback request. A response gives the first 10 tracks of the chart;
\* when both requests fail the list stays empty, no error is shown and no
\* request follows.
C16_TrendingFetchedOnce ==
    /\ [](/\ trendingRequests <= 2
          /\ trendingStage = "primary"
                => trendingRequests = 1 /\ trendingTracks = <<>>
          /\ trendingStage = "fallback"
                => trendingRequests = 2 /\ trendingTracks = <<>>
          /\ Len(trendingTracks) <= TrendingCount)
    /\ [][/\ lastOp' = "trendingDone"
                => FirstOf(trendingTracks', ChartBody(trendingStage), TrendingCount)
          /\ lastOp' = "trendingFailed"
                => trendingTracks' = <<>> /\ alerts' = alerts
          /\ trendingStage = "done" => UNCHANGED trendingVars]_vars

\* the fallback request answered with eleven tracks: ten are kept
C16_Witness ==
    /\ trendingStage = "done"
    /\ trendingRequests = 2
    /\ Len(trendingTracks) = TrendingCount
    /\ trendingTracks[TrendingCount] = CatalogChartLong[TrendingCount]

\* current track, is-playing flag and recently-played list after playNext
AfterPlayNext ==
    IF currentTrack = Null \/ Len(tracks) = 0
    THEN playVars
    ELSE LET t == At(tracks, NextIndex)
         IN  IF t = Undefined THEN playVars
             ELSE <<t, TRUE, RecordPlay(recentlyPlayed, t)>>

\* the step that takes the "ended" notification off the queue
EndedHandled ==
    /\ events # <<>>
    /\ Head(events) = "ended"
    /\ events' = Tail(events)
    /\ ~crashed'

\* C17: when the element reports the end of the track, current track,
\* is-playing flag and recently-played list change as they do on a playNext
\* call made in the same state.
C17_EndedIsPlayNext ==
    [][(lastOp' \in {"playNext", "onEnded"} \/ EndedHandled)
       => <<currentTrack', isPlaying', recentlyPlayed'>> = AfterPlayNext]_vars

\* the only track of the list has ended and was selected again
C17_Witness ==
    /\ lastOp = "playNext"
    /\ ~crashed
    /\ durationKnown
    /\ position = TrackDuration
    /\ audioPaused
    /\ events = <<>>
    /\ isPlaying
    /\ timers = 1

\* C18: a seek is clamped: the progress shown is within 0..100 percent in
\* every state and the position within the track.
C18_SeekIsClamped ==
    /\ progress >= 0
    /\ progress <= 100
    /\ position >= 0
    /\ position <= TrackDuration

\* C19: a seek while the duration is unknown does nothing: it does not
\* throw, leaves the position and shows progress 0; handleTimeUpdate shows 0
\* when the duration is unknown.
C19_SeekWithoutDurationIsNoOp ==
    [][/\ (lastOp' \in {"seek", "seekThrew"} /\ ~durationKnown)
            => /\ lastOp' = "seek"
               /\ position' = position
               /\ progress' = 0
       /\ (lastOp' = "timeUpdate" /\ ~durationKnown) => progress' = 0]_vars

\* C20: after the element has refused a play request of playTrack or
\* togglePlayPause, the is-playing flag is not set while the element is
\* paused.
C20_RejectedPlayRevertsFlag ==
    lastOp = "playRejected" => ~(isPlaying /\ audioPaused)

\* C21: togglePlayPause changes nothing without a current track; with one it
\* switches the is-playing flag, the element is paused afterwards when the
\* flag was set and playing afterwards when it was not, and current track and
\* recently-played list stay.
C21_ToggleSwitchesPlayback ==
    [][lastOp' = "togglePlayPause"
       => IF currentTrack = Null
          THEN UNCHANGED <<playVars, audioExists, audioPaused, audioVolume,
                           events, timers, seekVars, favorites, storageVars,
                           searchVars, volumeVars>>
          ELSE /\ isPlaying' = ~isPlaying
               /\ isPlaying => audioPaused'
               /\ ~isPlaying => ~audioPaused'
               /\ currentTrack' = currentTrack
               /\ recentlyPlayed' = recentlyPlayed]_vars

\* a playing track has just been paused by the button
C21_Witness ==
    /\ lastOp = "togglePlayPause"
    /\ currentTrack # Null
    /\ ~isPlaying
    /\ audioPaused
    /\ events # <<>>
    /\ events[Len(events)] = "pause"

\* the handlers behind the next and the previous button, whether they
\* selected a track or returned at their guard
NextPrevious ==
    {"playNext", "playPrevious", "playNextReturned", "playPreviousReturned"}

\* the entry after id in list, the first after the last
Following(list, id) == list[((FindIndex(list, id) + 1) % Len(list)) + 1]

\* C22: with a current track and a non-empty displayed list (the results, or
\* the trending list when there are no results), playNext and playPrevious
\* select a track of the displayed list; with no results and a trending track
\* playing, playNext selects the following trending track.
C22_NextPrevUseDisplayedList ==
    [][(/\ lastOp' \in NextPrevious
        /\ currentTrack # Null
        /\ displayTracks # <<>>)
       => /\ lastOp' \in Selecting
          /\ ~crashed'
          /\ Some(displayTracks, currentTrack')
          /\ (/\ tracks = <<>>
              /\ Some(trendingTracks, currentTrack)
              /\ lastOp' \in {"playNext", "playNextReturned"})
                => currentTrack' = Following(trendingTracks, currentTrack)]_vars

\* C23: playTrack(t) makes the element start from position 0 in every case,
\* also when t is the current track, part-way through or paused: when the
\* play request of a playTrack call is carried out, the element plays from 0.
C23_PlayTrackStartsAtZero ==
    [][(lastOp = "playTrack" /\ lastOp' = "timer")
       => /\ ~audioPaused'
          /\ position' = 0]_vars

\* nothing is pending: no notification of the element, no play timer
Quiescent == events = <<>> /\ timers = 0

\* C24: the is-playing flag follows the element: it is set only once the
\* element has started (or while the notification of a pause is on its way),
\* and in a quiescent state it is set exactly when the element is playing.
C24_FlagFollowsEngine ==
    Running
        => /\ isPlaying
                => /\ audioExists
                   /\ ~audioPaused \/ Some(events, "pause")
           /\ Quiescent => (isPlaying <=> (audioExists /\ ~audioPaused))

C26_NoDuplicateFavorite == NoDuplicates(favorites)

\* three favorites, added in another order than the list shows them
C26_Witness ==
    /\ lastOp = "toggleFavorite"
    /\ Len(favorites) = 3
    /\ favorites[1] = "t3"
    /\ favorites[3] = "t2"

\* C27: once a track has been selected the current track is never reset to
\* none: whatever handlers have run since, the component holds a current track
\* that is a track (not null, not undefined) and is the latest selection.
C27_CurrentTrackStays ==
    lastSelected # Null
        => /\ Running
           /\ currentTrack \in AllTracks
           /\ currentTrack = lastSelected

\* C28: each persisted collection is changed by its own operation only: the
\* recently-played list (and its stored text) by playTrack, called directly or
\* by playNext / playPrevious, and the favorites (and their stored text) by
\* toggleFavorite; pause, seek, volume, mute and search change neither.
C28_ListsChangedByOwnOperation ==
    [][/\ (recentlyPlayed' # recentlyPlayed \/ storedRecent' # storedRecent)
            => lastOp' \in Selecting
       /\ (favorites' # favorites \/ storedFavorites' # storedFavorites)
            => lastOp' = "toggleFavorite"
       /\ lastOp' \in {"togglePlayPause", "seek", "seekThrew", "volume",
                        "mute", "searchMusic", "searchDone"}
            => UNCHANGED <<recentlyPlayed, favorites, storageVars>>]_vars

\* a mute after a seek to the end of the bar, a favorite, a second selection,
\* a pause and a search: both lists are as their own operations left them
C28_Witness ==
    /\ lastOp = "mute"
    /\ isMuted
    /\ ~isPlaying
    /\ progress = 100
    /\ Len(searches) = 2
    /\ Len(favorites) = 1
    /\ Len(recentlyPlayed) = 2

\* C29: the loading flag is set whenever a search request is still in flight,
\* also when two searches overlap and the first one settles before the second.
C29_LoadingWhileSearchInFlight ==
    (\E i \in 1..Len(searches) : searches[i].stage # "done") => loading

\* C30: a pause made by togglePlayPause is not undone by the play timer of an
\* earlier playTrack: when the timer fires after that pause, the element stays
\* paused and isPlaying stays false.
C30_PauseOutlivesPlayTimer ==
    [][(/\ lastOp = "togglePlayPause"
        /\ ~isPlaying
        /\ timers > 0
        /\ lastOp' = "timer")
            => (audioPaused' /\ ~isPlaying')]_vars

====
